---- MODULE Spec2Model ----
(***************************************************************************)
(* neurokit2/signal/signal_filter.py: signal_filter and its two helpers,   *)
(* _signal_filter_savgol and _signal_filter_butterworth.                   *)
(*                                                                         *)
(* signal_filter is a pure function.  The state holds the arguments of one *)
(* call and what the call gave back.  Init draws the arguments from        *)
(* bounded sets, the action SignalFilter applies the function.             *)
(*                                                                         *)
(* The three scipy.signal functions the code calls (savgol_filter, butter, *)
(* sosfiltfilt) are modelled at their call sites by what the caller can    *)
(* see: whether the call raises, and the length of the array it returns.   *)
(* The samples of a filtered array are not computed: an array is the term  *)
(* "this library call applied to these samples".                           *)
(***************************************************************************)
EXTENDS Integers, Sequences, FiniteSets, TLC

\* ------------------------------------------------------------------ bounds
MaxLen == 10      \* signals have 1..MaxLen samples
MaxCut == 2       \* cutoffs are None or 0..MaxCut (Hz)
MaxOrder == 3     \* order is 0..MaxOrder
MaxWindow == 5    \* window_length is "default" or 1..MaxWindow

\* ------------------------------------------------------------------ values
\* Python's None, and a value that is not None, for lowcut and highcut.
None == <<>>
Some(v) == <<v>>

\* A str is a sequence of characters.
LowerChars == <<"a","b","c","d","e","f","g","h","i","j","k","l","m",
                "n","o","p","q","r","s","t","u","v","w","x","y","z">>
UpperChars == <<"A","B","C","D","E","F","G","H","I","J","K","L","M",
                "N","O","P","Q","R","S","T","U","V","W","X","Y","Z">>

\* window_length is a str ("default") or an int.
StrWindow == [isstr |-> TRUE, n |-> 0]
IntWindow(n) == [isstr |-> FALSE, n |-> n]

\* One call into scipy.signal, as the call log records it.
Event(fn, ord, Wn, btype, fs, wl, raised) ==
    [fn |-> fn, order |-> ord, Wn |-> Wn, btype |-> btype, fs |-> fs,
     window_length |-> wl, raised |-> raised]

NoOp == Event("none", 0, <<>>, "", 0, 0, FALSE)

\* An array: the samples it was made from, the library call that made it
\* (NoOp for the caller's own array) and its length.
Array(data) == [data |-> data, op |-> NoOp, n |-> Len(data)]

NoArray == [data |-> <<>>, op |-> NoOp, n |-> 0]

\* What a function gives back: it raised or it returned `value`; `calls` are
\* the scipy.signal calls it made, in order.
Returned(value, calls) ==
    [raised |-> FALSE, error |-> "", value |-> value, calls |-> calls]
Raised(error, calls) ==
    [raised |-> TRUE, error |-> error, value |-> NoArray, calls |-> calls]

\* --------------------------------------------------------------- str.lower
\* The lowercase letter of every uppercase letter.
lower_table ==
    [c \in {UpperChars[i] : i \in 1..Len(UpperChars)} |->
        LowerChars[CHOOSE i \in 1..Len(UpperChars) : UpperChars[i] = c]]

\* str.lower() on one character: an uppercase letter becomes its lowercase
\* letter, any other character stays.
lower_char(c) == IF c \in DOMAIN lower_table THEN lower_table[c] ELSE c

\* A slip that compares method as given, without lower().
lower_keep_case(s) == s

\* method.lower()
lower(s) == [i \in 1..Len(s) |-> lower_char(s[i])]

\* ["sg", "savgol", "savitzky-golay"]
SavgolNames ==
    { <<"s","g">>,
      <<"s","a","v","g","o","l">>,
      <<"s","a","v","i","t","z","k","y","-","g","o","l","a","y">> }

\* ---------------------------------------------------------- Savitzky-Golay
\* int(np.round(sampling_rate / 10)) for a positive int sampling_rate: np.round
\* rounds a half to the even neighbour.
int_round_tenth(sampling_rate) ==
    LET q == sampling_rate \div 10
        r == sampling_rate % 10
    IN  IF r < 5 THEN q
        ELSE IF r > 5 THEN q + 1
        ELSE IF q % 2 = 0 THEN q ELSE q + 1

\* scipy.signal.savgol_filter(x, window_length, polyorder) in its default mode
\* ("interp"): a ValueError unless polyorder < window_length, window_length is
\* odd (the docstring of signal_filter: "Must be an odd integer") and
\* window_length <= len(x); else an array as long as x.
savgol_filter(x, window_length, polyorder) ==
    LET bad == \/ polyorder >= window_length
               \/ window_length % 2 = 0
               \/ window_length > x.n
        ev == Event("savgol_filter", polyorder, <<>>, "", 0, window_length, bad)
    IN  IF bad THEN Raised("ValueError", <<ev>>)
        ELSE Returned([data |-> x.data, op |-> ev, n |-> x.n], <<ev>>)

\* The window length that reaches savgol_filter.  For a str window_length the
\* code rounds sampling_rate / 10 and, when that is even, evaluates
\* `window_length + 1` without assigning it: the sum is dropped.
effective_window(sampling_rate, window_length) ==
    IF window_length.isstr
    THEN LET rounded == int_round_tenth(sampling_rate)
             dropped == IF rounded % 2 = 0 THEN rounded + 1 ELSE rounded
         IN  rounded
    ELSE window_length.n

\* A slip that keeps only the samples with a full window around them.
_signal_filter_savgol_valid(signal, sampling_rate, order, window_length) ==
    LET w == effective_window(sampling_rate, window_length)
        r == savgol_filter(signal, w, order)
    IN  IF r.raised THEN r ELSE [r EXCEPT !.value.n = @ - w + 1]

_signal_filter_savgol(signal, sampling_rate, order, window_length) ==
    savgol_filter(signal, effective_window(sampling_rate, window_length), order)

\* ------------------------------------------------------------- Butterworth
\* scipy.signal.butter(N, Wn, btype, output='sos', fs): a ValueError unless N is
\* a nonnegative integer (0 is accepted), every critical frequency is strictly
\* between 0 and fs / 2, and a band's edges are increasing; else the
\* second-order sections, here the term of the design call.
butter(N, Wn, btype, fs) ==
    LET bad == \/ N < 0
               \/ \E i \in 1..Len(Wn) : Wn[i] <= 0 \/ 2 * Wn[i] >= fs
               \/ (Len(Wn) = 2 /\ ~(Wn[1] < Wn[2]))
        ev == Event("butter", N, Wn, btype, fs, 0, bad)
    IN  [raised |-> bad, bound |-> TRUE, sos |-> ev, calls |-> <<ev>>]

\* The local `sos` when no branch of the if/elif chain assigned it.
Unbound == [raised |-> FALSE, bound |-> FALSE, sos |-> NoOp, calls |-> <<>>]

\* The number of taps sosfiltfilt counts in the sections butter designed:
\* 2 * n_sections + 1, less one when a section is of first order or empty.
ntaps(sos) ==
    IF sos.order = 0 THEN 2
    ELSE IF sos.btype = "bandpass" THEN 2 * sos.order + 1
    ELSE sos.order + 1

\* scipy.signal.sosfiltfilt(sos, x): pads x by 3 * ntaps samples at both ends,
\* a ValueError unless len(x) is greater than that; else an array as long as x.
sosfiltfilt(sos, x) ==
    LET bad == x.n <= 3 * ntaps(sos)
        ev == Event("sosfiltfilt", sos.order, sos.Wn, sos.btype, sos.fs, 0, bad)
    IN  IF bad THEN Raised("ValueError", <<sos, ev>>)
        ELSE Returned([data |-> x.data, op |-> ev, n |-> x.n], <<sos, ev>>)

\* A slip that designs a highpass for highcut and a lowpass for lowcut.
_signal_filter_butterworth_swapped(signal, sampling_rate, lowcut, highcut, order) ==
    LET design ==
            IF lowcut # None /\ highcut # None
            THEN butter(order, <<lowcut[1], highcut[1]>>, "bandpass", sampling_rate)
            ELSE IF lowcut # None
            THEN butter(order, <<lowcut[1]>>, "lowpass", sampling_rate)
            ELSE IF highcut # None
            THEN butter(order, <<highcut[1]>>, "highpass", sampling_rate)
            ELSE Unbound
    IN  IF design.raised THEN Raised("ValueError", design.calls)
        ELSE IF ~design.bound THEN Raised("UnboundLocalError", <<>>)
        ELSE sosfiltfilt(design.sos, signal)

_signal_filter_butterworth(signal, sampling_rate, lowcut, highcut, order) ==
    LET design ==
            IF lowcut # None /\ highcut # None
            THEN butter(order, <<lowcut[1], highcut[1]>>, "bandpass", sampling_rate)
            ELSE IF lowcut # None
            THEN butter(order, <<lowcut[1]>>, "highpass", sampling_rate)
            ELSE IF highcut # None
            THEN butter(order, <<highcut[1]>>, "lowpass", sampling_rate)
            ELSE Unbound
    IN  IF design.raised THEN Raised("ValueError", design.calls)
        ELSE IF ~design.bound THEN Raised("UnboundLocalError", <<>>)
        ELSE sosfiltfilt(design.sos, signal)

\* ---------------------------------------------------------- signal_filter
\* A slip that drops the early return of lines 65-66.
signal_filter_no_passthrough(signal, sampling_rate, lowcut, highcut, method, order, window_length) ==
    IF lower(method) \in SavgolNames
    THEN _signal_filter_savgol(signal, sampling_rate, order, window_length)
    ELSE _signal_filter_butterworth(signal, sampling_rate, lowcut, highcut, order)

\* A slip that lets a band (both cutoffs) choose Butterworth before method is read.
signal_filter_band_first(signal, sampling_rate, lowcut, highcut, method, order, window_length) ==
    IF lowcut = None /\ highcut = None
    THEN Returned(signal, <<>>)
    ELSE IF lower(method) \in SavgolNames /\ ~(lowcut # None /\ highcut # None)
         THEN _signal_filter_savgol(signal, sampling_rate, order, window_length)
         ELSE _signal_filter_butterworth(signal, sampling_rate, lowcut, highcut, order)

signal_filter(signal, sampling_rate, lowcut, highcut, method, order, window_length) ==
    IF lowcut = None /\ highcut = None
    THEN Returned(signal, <<>>)
    ELSE IF lower(method) \in SavgolNames
         THEN _signal_filter_savgol(signal, sampling_rate, order, window_length)
         ELSE _signal_filter_butterworth(signal, sampling_rate, lowcut, highcut, order)

\* ------------------------------------------------------------------ inputs
Signals == { Array([i \in 1..n |-> i % 3]) : n \in 1..MaxLen }

SamplingRates == {4, 10, 25, 30, 35, 1000}

Cutoffs == {None} \cup { Some(f) : f \in 0..MaxCut }

Methods ==
    { <<"b","u","t","t","e","r","w","o","r","t","h">>,
      <<"s","g">>,
      <<"S","G">>,
      <<"s","a","v","g","o","l">>,
      <<"S","a","v","G","o","l">>,
      <<"S","a","v","i","t","z","k","y","-","G","o","l","a","y">>,
      <<"s","a","v","g","o">> }

Orders == 0..MaxOrder

WindowLengths == {StrWindow} \cup { IntWindow(n) : n \in 1..MaxWindow }

\* ------------------------------------------------------------------- state
VARIABLES signal, sampling_rate, lowcut, highcut, method, order, window_length, pc, result

args == <<signal, sampling_rate, lowcut, highcut, method, order, window_length>>
vars == <<signal, sampling_rate, lowcut, highcut, method, order, window_length, pc, result>>

NoResult == Returned(NoArray, <<>>)

Init ==
    /\ signal \in Signals
    /\ sampling_rate \in SamplingRates
    /\ lowcut \in Cutoffs
    /\ highcut \in Cutoffs
    /\ method \in Methods
    /\ order \in Orders
    /\ window_length \in WindowLengths
    /\ pc = "call"
    /\ result = NoResult

\* One call of signal_filter, from entry to its return or its exception.
SignalFilter ==
    /\ pc = "call"
    /\ result' = signal_filter(signal, sampling_rate, lowcut, highcut, method, order, window_length)
    /\ pc' = "done"
    /\ UNCHANGED args

Next == SignalFilter

Spec == Init /\ [][Next]_vars

\* ------------------------------------------------------------ vocabulary
Done == pc = "done"

NoCutoff == lowcut = None /\ highcut = None

\* method is some casing of name: equal letter by letter up to case.
IsCasingOf(m, name) ==
    /\ Len(m) = Len(name)
    /\ \A i \in 1..Len(name) :
           \/ m[i] = name[i]
           \/ \E k \in 1..Len(LowerChars) : LowerChars[k] = name[i] /\ UpperChars[k] = m[i]

SavgolRequested == \E name \in SavgolNames : IsCasingOf(method, name)

\* The call went down the Savitzky-Golay path: it called the smoother and
\* nothing else.
SavgolPath ==
    /\ result.calls # <<>>
    /\ \A i \in 1..Len(result.calls) : result.calls[i].fn = "savgol_filter"

\* The call went down the Butterworth path: it reached the designer.
ButterworthPath ==
    \/ result.error = "UnboundLocalError"
    \/ /\ result.calls # <<>>
       /\ \A i \in 1..Len(result.calls) : result.calls[i].fn \in {"butter", "sosfiltfilt"}

C2_AsClaimed ==
    ( /\ Done /\ ~NoCutoff
      /\ \/ (lowcut # None /\ highcut # None /\ lowcut[1] >= highcut[1])
         \/ (lowcut # None /\ 2 * lowcut[1] >= sampling_rate)
         \/ (highcut # None /\ 2 * highcut[1] >= sampling_rate)
         \/ order < 1 )
    => result.raised

\* -------------------------------------------------------------------- C3
\* C3: signal_filter(signal, method="savgol") with no cutoff takes the
\* Savitzky-Golay path: what comes back is the smoother's outcome, and an array
\* it returns is the smoother's, as long as the input, not the input itself.
C3_AsClaimed ==
    (Done /\ NoCutoff /\ method = <<"s","a","v","g","o","l">>) =>
        /\ SavgolPath
        /\ ~result.raised =>
               /\ result.value.op.fn = "savgol_filter"
               /\ result.value.n = signal.n

\* -------------------------------------------------------------------- C4
\* C4: on the Savitzky-Golay path with window_length "default", the window
\* length handed to the smoother is odd for every positive sampling_rate, and
\* is 101 when sampling_rate is 1000.
C4_AsClaimed ==
    (Done /\ SavgolPath /\ window_length.isstr) =>
        /\ result.calls[1].window_length % 2 = 1
        /\ sampling_rate = 1000 => result.calls[1].window_length = 101

\* -------------------------------------------------------------------- C5
\* C5: with at least one cutoff supplied, every casing of "sg", "savgol" and
\* "savitzky-golay" takes the Savitzky-Golay path and every other method the
\* Butterworth path; exactly one of the two is taken, and an array the call
\* returns is the one its last library call returned.
C5_Routing ==
    (Done /\ ~NoCutoff) =>
        /\ SavgolRequested => SavgolPath
        /\ ~SavgolRequested => ButterworthPath
        /\ SavgolPath # ButterworthPath
        /\ ~result.raised =>
               /\ result.value.op = result.calls[Len(result.calls)]
               /\ result.value.data = signal.data

\* A mixed-case alias with a cutoff supplied, smoothed.
C5_Witness ==
    /\ Done /\ ~NoCutoff
    /\ method = <<"S","a","v","G","o","l">>
    /\ SavgolPath
    /\ ~result.raised
    /\ result.value.op.fn = "savgol_filter"

\* -------------------------------------------------------------------- C6
\* C6: on the Butterworth path the filter type follows from which cutoffs are
\* present: both -> bandpass on [lowcut, highcut]; only lowcut -> highpass at
\* lowcut; only highcut -> lowpass at highcut.  One of the three always
\* applies, so the designer is called first and the applicator runs only on
\* the sections it returned.
C6_FilterType ==
    (Done /\ ButterworthPath) =>
        /\ ~NoCutoff
        /\ result.error # "UnboundLocalError"
        /\ result.calls[1].fn = "butter"
        /\ (lowcut # None /\ highcut # None) =>
               /\ result.calls[1].btype = "bandpass"
               /\ result.calls[1].Wn = <<lowcut[1], highcut[1]>>
        /\ (lowcut # None /\ highcut = None) =>
               /\ result.calls[1].btype = "highpass"
               /\ result.calls[1].Wn = <<lowcut[1]>>
        /\ (lowcut = None /\ highcut # None) =>
               /\ result.calls[1].btype = "lowpass"
               /\ result.calls[1].Wn = <<highcut[1]>>
        /\ \A i \in 1..Len(result.calls) :
               result.calls[i].fn = "sosfiltfilt" =>
                   /\ i = 2
                   /\ ~result.calls[1].raised
                   /\ result.calls[i].btype = result.calls[1].btype
                   /\ result.calls[i].Wn = result.calls[1].Wn
                   /\ result.calls[i].order = order

\* A band designed and applied.
C6_Witness ==
    /\ Done /\ ButterworthPath
    /\ lowcut # None /\ highcut # None
    /\ Len(result.calls) = 2
    /\ result.calls[1].btype = "bandpass"
    /\ ~result.raised

\* -------------------------------------------------------------------- C7
\* C7: a Savitzky-Golay request fails whenever its window length is even, or
\* <= order, or > the signal's length; signal_filter(signal, method="savgol",
\* order=3, window_length=3) is one such request.
C7_AsClaimed ==
    ( /\ Done /\ SavgolRequested
      /\ LET w == effective_window(sampling_rate, window_length)
         IN  w % 2 = 0 \/ w <= order \/ w > signal.n )
    => result.raised

\* -------------------------------------------------------------------- C8
\* C8: whatever the path (passthrough, Butterworth lowpass, highpass or
\* bandpass, Savitzky-Golay), an array the call returns has as many samples as
\* the input signal.
C8_SameLength ==
    (Done /\ ~result.raised) => result.value.n = signal.n

\* A smoothed array whose window is shorter than the signal.
C8_Witness ==
    /\ Done /\ ~result.raised
    /\ SavgolPath
    /\ result.calls[1].window_length > 1
    /\ result.value.n = signal.n

\* -------------------------------------------------------------------- C9
\* C9: a call that ends in an error raised it before any numeric work: no
\* library call had completed, and no array comes back.
C9_AsClaimed ==
    (Done /\ result.raised) =>
        /\ \A i \in 1..Len(result.calls) : result.calls[i].raised
        /\ result.value = NoArray

====
